---- MODULE Spec2Model ----
(***************************************************************************)
(* Suggestion lifecycle of the claims API: the suggestion store            *)
(* (repositories/base.py, repositories/suggestion_repository.py), the      *)
(* recommendation generator (services/ai_service.py), the services         *)
(* (services/suggestions_service.py, services/claims_service.py) and the   *)
(* review / generate routes (api/routes/suggestions.py).                   *)
(*                                                                         *)
(* Conventions.  An Optional[T] value is a sequence of length <= 1:        *)
(* None is <<>> and a present value v is <<v>>.  A confidence score is an  *)
(* integer number of hundredths (0.85 is 85).  A datetime is the reading   *)
(* of the clock `now`.  A uuid4() is the next value of the counter nextId. *)
(***************************************************************************)
EXTENDS Integers, Sequences, FiniteSets, TLC

VARIABLES claims,   \* claim table: claim id -> Optional[claim row]
          store,    \* suggestion table: suggestion id -> Optional[suggestion row]
          nextId,   \* next fresh suggestion id (uuid4)
          now,      \* the clock read by datetime.utcnow() / func.now()
          rev,      \* in-flight requests (review_suggestion, get_metrics), one per worker
          regen,    \* the in-flight regenerate_suggestions call
          resp,     \* response of the handler that completed last
          gen       \* one analyze_claim invocation: its inputs and its result

vars == <<claims, store, nextId, now, rev, regen, resp, gen>>

----------------------------------------------------------------------------
(* Bounds of the model *)

MaxClaims == 1      \* claim ids are 1..MaxClaims
MaxSug == 2         \* suggestion ids are 1..MaxSug (ids are never reused)
MaxTime == 2        \* the clock runs over 1..MaxTime
MaxEntries == 2     \* entries of a model response

ClaimIds == 1..MaxClaims
SugIds == 1..MaxSug
Times == 1..MaxTime

----------------------------------------------------------------------------
(* Optional values *)

None == <<>>
Some(v) == <<v>>

----------------------------------------------------------------------------
(* models/enums.py *)

APPROVE_CLAIM == "approve_claim"
DENY_CLAIM == "deny_claim"
REQUEST_INFO == "request_info"
FLAG_FRAUD == "flag_fraud"
ADJUST_AMOUNT == "adjust_amount"
REPLACE_ITEM == "replace_item"
REPAIR_ITEM == "repair_item"

SuggestionType ==
    {APPROVE_CLAIM, DENY_CLAIM, REQUEST_INFO, FLAG_FRAUD, ADJUST_AMOUNT,
     REPLACE_ITEM, REPAIR_ITEM}

PENDING == "pending"
ACCEPTED == "accepted"
REJECTED == "rejected"
MODIFIED == "modified"

SuggestionStatus == {PENDING, ACCEPTED, REJECTED, MODIFIED}

----------------------------------------------------------------------------
(* services/ai_service.py: the rule-based fallback *)

HighValueThreshold == 10000
FraudAmountThreshold == 50000
FraudItemsThreshold == 10
AdjustConfidence == 85
FraudConfidence == 75
ApproveConfidence == 80

FallbackVersion == "fallback-v1"
ModelVersion == "gpt-4-turbo-preview"

\* An AISuggestion built with the status ACCEPTED.
NewSuggestionAccepted(id, claim_id, type, description, confidence, explanation, action, t, version) ==
    [id |-> id,
     claim_id |-> claim_id,
     type |-> type,
     description |-> description,
     confidence_score |-> confidence,
     ai_explanation |-> explanation,
     suggested_action |-> action,
     status |-> ACCEPTED,
     created_at |-> t,
     reviewed_at |-> None,
     reviewer_id |-> None,
     reviewer_notes |-> None,
     model_version |-> version]

\* AISuggestion(...) as the generator builds it: the review fields are unset.
NewSuggestion(id, claim_id, type, description, confidence, explanation, action, t, version) ==
    [id |-> id,
     claim_id |-> claim_id,
     type |-> type,
     description |-> description,
     confidence_score |-> confidence,
     ai_explanation |-> explanation,
     suggested_action |-> action,
     status |-> PENDING,
     created_at |-> t,
     reviewed_at |-> None,
     reviewer_id |-> None,
     reviewer_notes |-> None,
     model_version |-> version]

AdjustAction(claim) ==
    [action |-> "review", reason |-> "high_value",
     threshold |-> HighValueThreshold, current_amount |-> claim.total_amount]

\* The indicator chosen by the item count first.
FraudActionItemsFirst(claim) ==
    [action |-> "investigate",
     indicators |-> << IF claim.nitems > FraudItemsThreshold
                       THEN "excessive_items" ELSE "high_amount" >>,
     risk_level |-> "medium"]

FraudAction(claim) ==
    [action |-> "investigate",
     indicators |-> << IF claim.total_amount > FraudAmountThreshold
                       THEN "high_amount" ELSE "excessive_items" >>,
     risk_level |-> "medium"]

ApproveAction(claim) ==
    [action |-> "approve", total_amount |-> claim.total_amount]

\* The rule written with >= in place of >.
AmountRuleAtLeast(claim) == claim.total_amount >= HighValueThreshold

\* The rule "if claim.total_amount > 10000".
AmountRule(claim) == claim.total_amount > HighValueThreshold

\* The fraud rule firing also for a claim that has no processing results.
FraudRuleUnprocessed(claim) ==
    \/ claim.total_amount > FraudAmountThreshold
    \/ claim.nitems > FraudItemsThreshold
    \/ claim.ml_processing_results = None

\* The rule "if claim.total_amount > 50000 or len(claim.items) > 10".
FraudRule(claim) ==
    \/ claim.total_amount > FraudAmountThreshold
    \/ claim.nitems > FraudItemsThreshold

\* The rules with the approval appended only when no other rule fired.
FallbackRulesApproveElse(claim) ==
    IF AmountRule(claim)
      THEN << [type |-> ADJUST_AMOUNT,
               description |-> "High-value claim detected",
               confidence |-> AdjustConfidence,
               explanation |-> "Claim amount exceeds normal threshold",
               action |-> AdjustAction(claim)] >>
      ELSE << [type |-> APPROVE_CLAIM,
               description |-> "Basic claim recommendation",
               confidence |-> ApproveConfidence,
               explanation |->
                   "Initial review suggests approval pending detailed analysis",
               action |-> ApproveAction(claim)] >>

\* The candidates without their ids, in the order the code appends them.
FallbackRules(claim) ==
    (IF AmountRule(claim)
       THEN << [type |-> ADJUST_AMOUNT,
                description |-> "High-value claim detected",
                confidence |-> AdjustConfidence,
                explanation |-> "Claim amount exceeds normal threshold",
                action |-> AdjustAction(claim)] >>
       ELSE << >>)
    \o
    (IF FraudRule(claim)
       THEN << [type |-> FLAG_FRAUD,
                description |-> "Potential fraud indicators detected",
                confidence |-> FraudConfidence,
                explanation |-> "Unusual claim characteristics detected",
                action |-> FraudAction(claim)] >>
       ELSE << >>)
    \o
    << [type |-> APPROVE_CLAIM,
        description |-> "Basic claim recommendation",
        confidence |-> ApproveConfidence,
        explanation |-> "Initial review suggests approval pending detailed analysis",
        action |-> ApproveAction(claim)] >>

\* The fallback with its candidates tagged as the model's.
FallbackAnalysisModelTag(claim, firstId, t) ==
    LET rules == FallbackRules(claim)
    IN  [k \in 1..Len(rules) |->
            NewSuggestion(firstId + k - 1, claim.id, rules[k].type,
                          rules[k].description, rules[k].confidence,
                          rules[k].explanation, rules[k].action, t,
                          ModelVersion)]

\* _fallback_analysis(claim): ids are fresh from firstId on, created_at is t.
FallbackAnalysis(claim, firstId, t) ==
    LET rules == FallbackRules(claim)
    IN  [k \in 1..Len(rules) |->
            NewSuggestion(firstId + k - 1, claim.id, rules[k].type,
                          rules[k].description, rules[k].confidence,
                          rules[k].explanation, rules[k].action, t,
                          FallbackVersion)]

----------------------------------------------------------------------------
(* services/ai_service.py: the model path *)

\* The keys analyze_claim reads from each entry of the "suggestions" array.
EntryKeys ==
    {"type", "description", "confidence_score", "explanation", "suggested_action"}

\* An entry of the model's answer: the keys it has, the value under "type",
\* and the value under "confidence_score" (numeric tells whether float()
\* accepts it, confidence is its value in hundredths).
Entry(keys, type, numeric, confidence) ==
    [keys |-> keys, type |-> type, numeric |-> numeric, confidence |-> confidence,
     description |-> "model description",
     explanation |-> "model explanation",
     suggested_action |-> [action |-> "model_action"]]

\* The model's answer.  kind is "raise" (the API call raises), "notjson"
\* (json.loads raises), "nokey" (no "suggestions" array) or "ok".
ModelResponse(kind, entries) == [kind |-> kind, entries |-> entries]

\* One pass of the loop body, lines 80-91: the AISuggestion built from an
\* entry.  Defined when EntryRaises(e) is false.
EntrySuggestion(claim, e, id, t) ==
    NewSuggestion(id, claim.id, e.type, e.description, e.confidence,
                  e.explanation, e.suggested_action, t, ModelVersion)

\* The loop body raises: KeyError on a missing key, ValueError from
\* SuggestionType(...) or from float(...).
EntryRaises(e) ==
    \/ e.keys # EntryKeys
    \/ e.type \notin SuggestionType
    \/ ~e.numeric

\* The for loop of lines 78-92 from entry k on, acc being the list built so
\* far: ok is false when an entry raised.
RECURSIVE ConvertEntries(_, _, _, _, _, _)
ConvertEntries(claim, entries, k, acc, firstId, t) ==
    IF k > Len(entries)
      THEN [ok |-> TRUE, suggestions |-> acc]
      ELSE IF EntryRaises(entries[k])
             THEN [ok |-> FALSE, suggestions |-> acc]
             ELSE ConvertEntries(claim, entries, k + 1,
                      Append(acc, EntrySuggestion(claim, entries[k],
                                                 firstId + k - 1, t)),
                      firstId, t)

\* The try block with the entries that raise skipped instead of failing the
\* whole answer.
PrimaryAnalysisBestEffort(claim, response, firstId, t) ==
    IF response.kind # "ok"
      THEN [ok |-> FALSE, suggestions |-> << >>]
      ELSE LET valid == SelectSeq(response.entries, LAMBDA e : ~EntryRaises(e))
           IN  [ok |-> TRUE,
                suggestions |->
                   [k \in 1..Len(valid) |->
                       EntrySuggestion(claim, valid[k], firstId + k - 1, t)]]

\* The try block, lines 62-94.
PrimaryAnalysis(claim, response, firstId, t) ==
    IF response.kind # "ok"
      THEN [ok |-> FALSE, suggestions |-> << >>]
      ELSE ConvertEntries(claim, response.entries, 1, << >>, firstId, t)

\* claim_data as sent to the model, lines 21-42: video_analysis is included
\* when claim.ml_processing_results is set.
ClaimData(claim) ==
    [total_amount |-> claim.total_amount,
     nitems |-> claim.nitems,
     video_analysis |-> claim.ml_processing_results]

\* analyze_claim(claim): the list returned, with the calls it made.
AnalyzeClaim(claim, response, firstId, t) ==
    LET primary == PrimaryAnalysis(claim, response, firstId, t)
    IN  IF primary.ok
          THEN [suggestions |-> primary.suggestions,
                claim_data |-> ClaimData(claim),
                primary_calls |-> 1, fallback_calls |-> 0]
          ELSE [suggestions |-> FallbackAnalysis(claim, firstId, t),
                claim_data |-> ClaimData(claim),
                primary_calls |-> 1, fallback_calls |-> 1]

----------------------------------------------------------------------------
(* repositories/base.py: BaseRepository over a table id -> Optional[row] *)

\* get(id): the row, or None.
RepoGet(table, id) == table[id]

\* The setattr loop of update(): every key of obj_in overwrites the
\* attribute of that name.
SetAttrs(row, obj_in) ==
    [k \in DOMAIN row |-> IF k \in DOMAIN obj_in THEN obj_in[k] ELSE row[k]]

\* update() without the "if db_obj" test: a row is written for an id that
\* has none.
RepoUpdateUnchecked(table, id, obj_in) ==
    [table EXCEPT ![id] =
        Some(SetAttrs(IF table[id] = None
                        THEN NewSuggestion(id, 0, "", "", 0, "", << >>, 0, "")
                        ELSE table[id][1],
                      obj_in))]

\* An update whose UPDATE has no WHERE clause: obj_in is written to every
\* stored row.
RepoUpdateAllRows(table, id, obj_in) ==
    IF RepoGet(table, id) = None
      THEN table
      ELSE [i \in DOMAIN table |->
              IF table[i] = None THEN None
                                 ELSE Some(SetAttrs(table[i][1], obj_in))]

\* update(id, obj_in): the table after the call (unchanged when get(id) finds
\* no row); the call returns RepoGet of the result.
RepoUpdate(table, id, obj_in) ==
    IF RepoGet(table, id) = None
      THEN table
      ELSE [table EXCEPT ![id] = Some(SetAttrs(table[id][1], obj_in))]

\* A delete that removes every row of the table.
RepoDeleteAll(table, id) == [i \in DOMAIN table |-> None]

\* delete(id): the table after the call; the call returns RepoExists(table, id).
RepoDelete(table, id) ==
    IF RepoGet(table, id) = None
      THEN table
      ELSE [table EXCEPT ![id] = None]

RepoExists(table, id) == table[id] # None

\* create(obj_in): self.model(**obj_in), db.add, db.commit.  The row holds
\* the values of obj_in as they are given; nothing is validated.  The id is
\* the one the column default assigns.
RepoCreate(table, id, obj_in, t) ==
    [table EXCEPT ![id] =
        Some([NewSuggestion(id, obj_in.claim_id, obj_in.type, "created",
                            obj_in.confidence_score, "created",
                            obj_in.suggested_action, t, "client")
                 EXCEPT !.status = obj_in.status])]

\* A commit whose changes stay in the table when the store fails.
CommitKeepsOnFailure(table, flushed, ok) == flushed

\* db.commit() of a session whose changes make the table `flushed`: they
\* become the table, or, when the store fails (ok is false), the commit
\* raises and none of them does.
Commit(table, flushed, ok) == IF ok THEN flushed ELSE table

\* db.add(obj) for every obj of a list, then db.commit().
RepoAddAll(table, objs) ==
    [id \in DOMAIN table |->
        IF \E k \in 1..Len(objs) : objs[k].id = id
          THEN Some(objs[CHOOSE k \in 1..Len(objs) : objs[k].id = id])
          ELSE table[id]]

----------------------------------------------------------------------------
(* repositories/suggestion_repository.py *)

\* The empty document {} and the empty string: present, but false in
\* "if modified_action:".
EmptyDoc == [k \in {} |-> 0]

Truthy(opt) == opt # None /\ opt[1] # EmptyDoc

\* update_data of update_status, lines 59-66.
StatusUpdateData(status, reviewer_id, reviewer_notes, modified_action, t) ==
    LET base == [status |-> status,
                 reviewer_id |-> Some(reviewer_id),
                 reviewer_notes |-> reviewer_notes,
                 reviewed_at |-> Some(t)]
    IN  IF Truthy(modified_action)
          THEN [suggested_action |-> modified_action[1]] @@ base
          ELSE base

\* update_status(...): the table after the call.
RepoUpdateStatus(table, id, status, reviewer_id, reviewer_notes, modified_action, t) ==
    RepoUpdate(table, id,
               StatusUpdateData(status, reviewer_id, reviewer_notes,
                                modified_action, t))

\* The stored rows.
Rows(table) == {table[id][1] : id \in {i \in DOMAIN table : table[i] # None}}

\* A sequence is ordered by created_at descending.
CreatedDesc(seq) ==
    \A i, j \in 1..Len(seq) : i < j => seq[i].created_at >= seq[j].created_at

\* The sequences a query over the rows `rows` may return under
\* ORDER BY created_at DESC: rows of equal created_at come in any order.
OrderedDesc(rows) ==
    {seq \in [1..Cardinality(rows) -> rows] :
        /\ \A r \in rows : \E i \in 1..Cardinality(rows) : seq[i] = r
        /\ CreatedDesc(seq)}

\* The query of get_by_claim without its order_by.
GetByClaimUnordered(table, claim_id) ==
    LET rows == {r \in Rows(table) : r.claim_id = claim_id}
    IN  {seq \in [1..Cardinality(rows) -> rows] :
            \A r \in rows : \E i \in 1..Cardinality(rows) : seq[i] = r}

\* The query without its filter on claim_id.
GetByClaimAnyClaim(table, claim_id) == OrderedDesc(Rows(table))

\* get_by_claim(claim_id): the results the query may return.
GetByClaim(table, claim_id) ==
    OrderedDesc({r \in Rows(table) : r.claim_id = claim_id})

\* The sequences a query without ORDER BY may return over the rows `rows`.
AnyOrder(rows) ==
    {seq \in [1..Cardinality(rows) -> rows] :
        \A r \in rows : \E i \in 1..Cardinality(rows) : seq[i] = r}

\* A filter argument is applied when "if <argument>:" holds: a UUID and a
\* member of an enumeration are always true, None is false.
Given(opt) == opt # None

\* get_with_filters with the type filter in an elif of the status filter.
RepoGetWithFiltersElif(table, claim_id, status, type) ==
    OrderedDesc({r \in Rows(table) :
                    /\ Given(claim_id) => r.claim_id = claim_id[1]
                    /\ Given(status) => r.status = status[1]
                    /\ (~Given(status) /\ Given(type)) => r.type = type[1]})

\* get_with_filters(claim_id, status, type), lines 32-48: the results the
\* query may return.
RepoGetWithFilters(table, claim_id, status, type) ==
    OrderedDesc({r \in Rows(table) :
                    /\ Given(claim_id) => r.claim_id = claim_id[1]
                    /\ Given(status) => r.status = status[1]
                    /\ Given(type) => r.type = type[1]})

\* A rate without the test of total.
RateUnguarded(count, total) == [num |-> count, den |-> total]

\* "count / total if total > 0 else 0", lines 93-95, as the fraction
\* num/den (0 is 0/1).
Rate(count, total) ==
    IF total > 0 THEN [num |-> count, den |-> total]
                 ELSE [num |-> 0, den |-> 1]

\* func.count(id) over the rows of a status, lines 74-84.
CountStatus(table, status) ==
    Cardinality({r \in Rows(table) : r.status = status})

\* The grouping with a row for every member of the enumeration, also for
\* the types no stored row has.
GroupByTypeAll(table) ==
    LET types == <<APPROVE_CLAIM, DENY_CLAIM, REQUEST_INFO, FLAG_FRAUD,
                   ADJUST_AMOUNT, REPLACE_ITEM, REPAIR_ITEM>>
    IN  {[k \in 1..Len(types) |->
            <<types[k], Cardinality({r \in Rows(table) : r.type = types[k]})>>]}

\* query(type, count(id)).group_by(type).all(), lines 86-89: one
\* (type, count) row for every type some stored row has, in any order.
GroupByType(table) ==
    AnyOrder({<<type, Cardinality({r \in Rows(table) : r.type = type})>> :
                 type \in {r.type : r \in Rows(table)}})

\* Metrics with the total taken from the ids handed out so far.
RepoGetMetricsEverCreated(table) ==
    LET total == nextId - 1
    IN  {[total_suggestions |-> total,
          acceptance_rate |-> Rate(CountStatus(table, ACCEPTED), total),
          rejection_rate |-> Rate(CountStatus(table, REJECTED), total),
          modification_rate |-> Rate(CountStatus(table, MODIFIED), total),
          suggestions_by_type |-> by_type] : by_type \in GroupByType(table)}

\* get_metrics(), lines 70-97: the dictionaries the call may return.
RepoGetMetrics(table) ==
    LET total == Cardinality(Rows(table))
    IN  {[total_suggestions |-> total,
          acceptance_rate |-> Rate(CountStatus(table, ACCEPTED), total),
          rejection_rate |-> Rate(CountStatus(table, REJECTED), total),
          modification_rate |-> Rate(CountStatus(table, MODIFIED), total),
          suggestions_by_type |-> by_type] : by_type \in GroupByType(table)}

\* The filter written with > in place of >=.
RepoGetHighConfidenceAbove(table, threshold) ==
    AnyOrder({r \in Rows(table) : r.confidence_score > threshold})

\* get_high_confidence_suggestions(threshold), lines 99-103: the results
\* the query may return.
RepoGetHighConfidence(table, threshold) ==
    AnyOrder({r \in Rows(table) : r.confidence_score >= threshold})

\* get_by_status(status), lines 20-24: the results the query may return
\* (it has no order_by).
RepoGetByStatus(table, status) ==
    AnyOrder({r \in Rows(table) : r.status = status})

\* The pending query without its filter.
RepoGetPendingAll(table) == AnyOrder(Rows(table))

\* get_pending_suggestions(), lines 105-107.
RepoGetPending(table) == RepoGetByStatus(table, PENDING)

----------------------------------------------------------------------------
(* Inputs of the handlers *)

Workers == {"w1", "w2"}

\* SuggestionReview bodies (models/schemas.py): status is any
\* SuggestionStatus, reviewer_notes and modified_action are optional.
Review(status, reviewer_id, reviewer_notes, modified_action) ==
    [status |-> status, reviewer_id |-> reviewer_id,
     reviewer_notes |-> reviewer_notes, modified_action |-> modified_action]

Override == [action |-> "override"]

Reviews ==
    {Review(ACCEPTED, "r1", Some("note"), None),
     Review(REJECTED, "r2", None, None),
     Review(MODIFIED, "r1", Some("note"), Some(Override)),
     Review(MODIFIED, "r2", None, Some(EmptyDoc)),
     Review(MODIFIED, "r2", Some("note"), None),
     Review(PENDING, "r1", None, None)}

\* The review bodies that differ in the status they set.
StatusReviews ==
    {review \in Reviews :
        review.status # PENDING /\ review.modified_action = None}

\* ClaimCreate bodies: the total amount and the number of items.
ClaimAmounts == {15000}
ClaimItemCounts == {3}

\* Answers of the model in the lifecycle specification.
ValidEntry == Entry(EntryKeys, DENY_CLAIM, TRUE, 95)
Responses ==
    {ModelResponse("raise", << >>),
     ModelResponse("ok", << >>),
     ModelResponse("ok", << ValidEntry >>)}

\* The response of a handler: the route and the HTTP status code.
NoResponse == [op |-> "none", code |-> 0]
Response(op, code) == [op |-> op, code |-> code]

\* The answer of a query: the arguments it was called with and the
\* document it returned.
ResponseBody(op, args, body) ==
    [op |-> op, code |-> 200, args |-> args, body |-> body]

\* SuggestionCreate bodies as create_suggestion passes them on
\* (suggestion_data.dict()): well-formed ones, and ones with a
\* confidence_score outside [0, 1], a type or a status outside the
\* enumeration.
SuggestionCreate(claim_id, type, confidence_score, status) ==
    [claim_id |-> claim_id, type |-> type,
     confidence_score |-> confidence_score, status |-> status,
     suggested_action |-> [action |-> "created"]]

SuggestionCreates ==
    {SuggestionCreate(1, APPROVE_CLAIM, 80, PENDING),
     SuggestionCreate(1, FLAG_FRAUD, 95, ACCEPTED),
     SuggestionCreate(1, APPROVE_CLAIM, 150, PENDING),
     SuggestionCreate(1, DENY_CLAIM, -10, PENDING),
     SuggestionCreate(1, "investigation", 95, PENDING),
     SuggestionCreate(1, REPAIR_ITEM, 95, "done")}

\* The bodies whose fields are all within their declared ranges.
WellFormedCreates ==
    {data \in SuggestionCreates :
        /\ data.confidence_score \in 0..100
        /\ data.type \in SuggestionType
        /\ data.status \in SuggestionStatus}

\* Thresholds of the high-confidence query, in hundredths.
Thresholds == {80, 81}

\* Filter arguments of the list queries.
QueryClaims == {1, 2}
ClaimFilters == {None} \cup {Some(c) : c \in QueryClaims}
StatusFilters == {None, Some(PENDING), Some(ACCEPTED)}
TypeFilters == {None, Some(APPROVE_CLAIM), Some(FLAG_FRAUD)}

----------------------------------------------------------------------------
(* Initial state: empty tables, no request in flight *)

Init ==
    /\ claims = [c \in ClaimIds |-> None]
    /\ store = [i \in SugIds |-> None]
    /\ nextId = 1
    /\ now = 1
    /\ rev = [w \in Workers |-> None]
    /\ regen = None
    /\ resp = NoResponse
    /\ gen = None

\* Time passes.
Tick ==
    /\ now < MaxTime
    /\ now' = now + 1
    /\ UNCHANGED <<claims, store, nextId, rev, regen, resp, gen>>

----------------------------------------------------------------------------
(* services/ai_service.py: AIService has the methods analyze_claim and      *)
(* _fallback_analysis only.  The services call ai_service.generate_        *)
(* suggestions(claim_id), an attribute the class does not have: the call   *)
(* raises AttributeError before anything is generated or stored.           *)

AIServiceMethods == {"analyze_claim", "_fallback_analysis"}

\* Calling ai_service.<method>(...) raises AttributeError.
AttributeErrorOn(method) == method \notin AIServiceMethods

\* ai_service.generate_suggestions(claim_id) as the services call it: the
\* suggestion table after the call (nothing is stored), whether the call
\* returned, and the number of analyze_claim runs it led to.
ServiceGenerateSuggestions(table, claim_id) ==
    [returned |-> ~AttributeErrorOn("generate_suggestions"),
     analyze_calls |-> IF AttributeErrorOn("generate_suggestions") THEN 0 ELSE 1,
     table |-> table]

----------------------------------------------------------------------------
(* services/claims_service.py *)

NewClaim(id, amount, nitems) ==
    [id |-> id, total_amount |-> amount, nitems |-> nitems,
     ml_processing_results |-> None, video_analysis |-> None,
     has_video |-> FALSE]

\* POST /claims -> ClaimsService.create_claim: the claim row is committed,
\* then the generation call is made.
CreateClaim(amount, nitems) ==
    /\ \E c \in ClaimIds : claims[c] = None
    /\ LET c == CHOOSE c \in ClaimIds :
                    claims[c] = None /\ \A d \in ClaimIds : d < c => claims[d] # None
           g == ServiceGenerateSuggestions(store, c)
       IN  /\ claims' = [claims EXCEPT ![c] = Some(NewClaim(c, amount, nitems))]
           /\ store' = g.table
           /\ resp' = Response("create_claim", IF g.returned THEN 201 ELSE 500)
    /\ UNCHANGED <<nextId, now, rev, regen, gen>>

\* POST /claims/{id}/video -> upload_video -> process_video_upload.
\* analysed is false when analyze_video raises.
UploadVideo(c, analysed) ==
    /\ IF claims[c] = None
         THEN /\ resp' = Response("upload_video", 404)
              /\ UNCHANGED <<claims, store>>
         ELSE IF ~analysed
           THEN /\ resp' = Response("upload_video", 500)
                /\ UNCHANGED <<claims, store>>
           ELSE LET g == ServiceGenerateSuggestions(store, c)
                IN  /\ claims' = RepoUpdate(claims, c,
                                     [video_analysis |-> Some("analysis"),
                                      has_video |-> TRUE])
                    /\ store' = g.table
                    /\ resp' = Response("upload_video", IF g.returned THEN 201 ELSE 500)
    /\ UNCHANGED <<nextId, now, rev, regen, gen>>

----------------------------------------------------------------------------
(* api/routes/suggestions.py: generate_suggestions *)

\* POST /suggestions/claims/{claim_id}/suggestions: 404 without the claim;
\* otherwise analyze_claim, db.add of every suggestion and one commit.
GenerateSuggestions(c, response) ==
    /\ IF claims[c] = None
         THEN /\ resp' = Response("generate", 404)
              /\ UNCHANGED <<store, nextId>>
         ELSE LET out == AnalyzeClaim(claims[c][1], response, nextId, now)
                  batch == out.suggestions
              IN  /\ nextId + Len(batch) - 1 <= MaxSug
                  /\ store' = RepoAddAll(store, batch)
                  /\ nextId' = nextId + Len(batch)
                  /\ resp' = Response("generate", 201)
    /\ UNCHANGED <<claims, now, rev, regen, gen>>

----------------------------------------------------------------------------
(* api/routes/suggestions.py: review_suggestion, one request per worker.   *)
(* Each request has its own Session: the row it queried (loaded), the      *)
(* object it assigns to (obj), and a commit that issues an UPDATE by       *)
(* primary key of the attributes whose value differs from the loaded one.  *)

\* Lines 183-188: the query, the 404 and the status check.
ReviewQuery(w, id, review) ==
    /\ rev[w] = None
    /\ LET found == RepoGet(store, id)
       IN  IF found = None
             THEN /\ resp' = Response("review", 404)
                  /\ UNCHANGED rev
             ELSE IF found[1].status # PENDING
               THEN /\ resp' = Response("review", 400)
                    /\ UNCHANGED rev
               ELSE /\ rev' = [rev EXCEPT ![w] =
                                 Some([pc |-> "checked", id |-> id,
                                       review |-> review,
                                       loaded |-> found[1], obj |-> found[1]])]
                    /\ UNCHANGED resp
    /\ UNCHANGED <<claims, store, nextId, now, regen, gen>>

\* The assignments without the one to suggested_action.
ReviewAssignKeepAction(obj, review, t) ==
    [obj EXCEPT !.status = review.status,
                !.reviewer_id = Some(review.reviewer_id),
                !.reviewer_notes = review.reviewer_notes,
                !.reviewed_at = Some(t)]

\* Lines 191-197: the assignments to the session's object.
ReviewAssign(obj, review, t) ==
    LET reviewed == [obj EXCEPT !.status = review.status,
                                !.reviewer_id = Some(review.reviewer_id),
                                !.reviewer_notes = review.reviewer_notes,
                                !.reviewed_at = Some(t)]
    IN  IF Truthy(review.modified_action)
          THEN [reviewed EXCEPT !.suggested_action = review.modified_action[1]]
          ELSE reviewed

ReviewWrite(w) ==
    /\ rev[w] # None
    /\ rev[w][1].pc = "checked"
    /\ rev' = [rev EXCEPT ![w] =
                 Some([rev[w][1] EXCEPT
                         !.pc = "written",
                         !.obj = ReviewAssign(rev[w][1].obj, rev[w][1].review, now)])]
    /\ UNCHANGED <<claims, store, nextId, now, regen, resp, gen>>

\* The attributes the flush writes: those whose value changed in the session.
Dirty(loaded, obj) ==
    [k \in {a \in DOMAIN obj : obj[a] # loaded[a]} |-> obj[k]]

\* Lines 199-204: db.commit().  The UPDATE matches no row when the
\* suggestion was deleted meanwhile: the flush raises, the handler rolls back
\* and answers 500.
ReviewCommit(w) ==
    /\ rev[w] # None
    /\ rev[w][1].pc = "written"
    /\ LET r == rev[w][1]
       IN  IF RepoGet(store, r.id) = None
             THEN /\ resp' = Response("review", 500)
                  /\ UNCHANGED store
             ELSE /\ store' = RepoUpdate(store, r.id, Dirty(r.loaded, r.obj))
                  /\ resp' = Response("review", 200)
    /\ rev' = [rev EXCEPT ![w] = None]
    /\ UNCHANGED <<claims, nextId, now, regen, gen>>

\* review_suggestion run from its first line to its last with no other
\* request in between: the handler is an async function that never awaits,
\* so one server process runs it without interruption.
ReviewSuggestion(id, review) ==
    /\ LET found == RepoGet(store, id)
       IN  IF found = None
             THEN /\ resp' = Response("review", 404)
                  /\ UNCHANGED store
             ELSE IF found[1].status # PENDING
               THEN /\ resp' = Response("review", 400)
                    /\ UNCHANGED store
               ELSE /\ store' = RepoUpdate(store, id,
                                   Dirty(found[1],
                                         ReviewAssign(found[1], review, now)))
                    /\ resp' = Response("review", 200)
    /\ UNCHANGED <<claims, nextId, now, rev, regen, gen>>

----------------------------------------------------------------------------
(* services/suggestions_service.py and the routes that call it *)

\* PATCH /suggestions/{id}/status -> update_suggestion_status ->
\* SuggestionRepository.update_status; 404 when it returns None.
UpdateSuggestionStatus(id, status, reviewer_id, reviewer_notes, modified_action) ==
    /\ store' = RepoUpdateStatus(store, id, status, reviewer_id,
                                 reviewer_notes, modified_action, now)
    /\ resp' = Response("update_status",
                        IF RepoExists(store, id) THEN 200 ELSE 404)
    /\ UNCHANGED <<claims, nextId, now, rev, regen, gen>>

\* SuggestionUpdate bodies with exclude_unset: the fields the caller set.
SuggestionUpdates ==
    {[status |-> REJECTED],
     [status |-> PENDING, reviewer_notes |-> None]}

\* PUT /suggestions/{id} -> update_suggestion -> BaseRepository.update.
UpdateSuggestion(id, data) ==
    /\ store' = RepoUpdate(store, id, data)
    /\ resp' = Response("update",
                        IF RepoExists(store, id) THEN 200 ELSE 404)
    /\ UNCHANGED <<claims, nextId, now, rev, regen, gen>>

\* DELETE /suggestions/{id} -> delete_suggestion -> BaseRepository.delete.
DeleteSuggestion(id) ==
    /\ store' = RepoDelete(store, id)
    /\ resp' = Response("delete",
                        IF RepoExists(store, id) THEN 200 ELSE 404)
    /\ UNCHANGED <<claims, nextId, now, rev, regen, gen>>

\* GET /suggestions/{id} -> get_suggestion -> BaseRepository.get; 404 when
\* it returns None.
GetSuggestion(id) ==
    /\ resp' = [ResponseBody("get", <<id>>, RepoGet(store, id))
                   EXCEPT !.code = IF RepoExists(store, id) THEN 200 ELSE 404]
    /\ UNCHANGED <<claims, store, nextId, now, rev, regen, gen>>

\* POST /suggestions/ -> create_suggestion -> BaseRepository.create.
CreateSuggestion(data) ==
    /\ nextId <= MaxSug
    /\ store' = RepoCreate(store, nextId, data, now)
    /\ nextId' = nextId + 1
    /\ resp' = Response("create", 200)
    /\ UNCHANGED <<claims, now, rev, regen, gen>>

\* GET /suggestions/metrics/ -> get_suggestion_metrics -> get_metrics.
GetMetrics ==
    /\ \E metrics \in RepoGetMetrics(store) :
          resp' = ResponseBody("metrics", << >>, metrics)
    /\ UNCHANGED <<claims, store, nextId, now, rev, regen, gen>>

\* GET /suggestions/high-confidence/ -> get_high_confidence_suggestions.
GetHighConfidence(threshold) ==
    /\ \E found \in RepoGetHighConfidence(store, threshold) :
          resp' = ResponseBody("high_confidence", <<threshold>>, found)
    /\ UNCHANGED <<claims, store, nextId, now, rev, regen, gen>>

\* GET /suggestions/pending/ -> get_pending_suggestions.
GetPending ==
    /\ \E found \in RepoGetPending(store) :
          resp' = ResponseBody("pending", << >>, found)
    /\ UNCHANGED <<claims, store, nextId, now, rev, regen, gen>>

\* GET /suggestions/ -> get_suggestions -> get_with_filters.
GetSuggestions(claim_id, status, type) ==
    /\ \E found \in RepoGetWithFilters(store, claim_id, status, type) :
          resp' = ResponseBody("list", <<claim_id, status, type>>, found)
    /\ UNCHANGED <<claims, store, nextId, now, rev, regen, gen>>

\* SuggestionRepository.get_by_claim(claim_id).
ListByClaim(claim_id) ==
    /\ \E found \in GetByClaim(store, claim_id) :
          resp' = ResponseBody("by_claim", <<claim_id>>, found)
    /\ UNCHANGED <<claims, store, nextId, now, rev, regen, gen>>

\* POST /suggestions/{claim_id}/regenerate -> regenerate_suggestions.
\* Line 86: the list of the claim's suggestions (existing), of which todo
\* is the part the loop has not deleted yet.
RegenStart(c) ==
    /\ regen = None
    /\ \E existing \in GetByClaim(store, c) :
          regen' = Some([claim_id |-> c,
                         existing |-> [k \in 1..Len(existing) |-> existing[k].id],
                         todo |-> [k \in 1..Len(existing) |-> existing[k].id]])
    /\ UNCHANGED <<claims, store, nextId, now, rev, resp, gen>>

\* Lines 87-88: one pass of the loop, repository.delete(suggestion.id).
RegenDelete ==
    /\ regen # None
    /\ regen[1].todo # << >>
    /\ store' = RepoDelete(store, Head(regen[1].todo))
    /\ regen' = Some([regen[1] EXCEPT !.todo = Tail(regen[1].todo)])
    /\ UNCHANGED <<claims, nextId, now, rev, resp, gen>>

\* Line 91: the generation call, after the loop.
RegenGenerate ==
    /\ regen # None
    /\ regen[1].todo = << >>
    /\ LET g == ServiceGenerateSuggestions(store, regen[1].claim_id)
       IN  /\ store' = g.table
           /\ resp' = Response("regenerate", IF g.returned THEN 200 ELSE 500)
    /\ regen' = None
    /\ UNCHANGED <<claims, nextId, now, rev, gen>>

\* The deletion loop of regenerate_suggestions run to its end.
RECURSIVE DeleteAll(_, _)
DeleteAll(table, ids) ==
    IF ids = << >> THEN table ELSE DeleteAll(RepoDelete(table, Head(ids)), Tail(ids))

\* regenerate_suggestions run from its first line to its last.
RegenerateSuggestions(c) ==
    /\ \E existing \in GetByClaim(store, c) :
          LET ids == [k \in 1..Len(existing) |-> existing[k].id]
              g == ServiceGenerateSuggestions(DeleteAll(store, ids), c)
          IN  /\ store' = g.table
              /\ resp' = Response("regenerate", IF g.returned THEN 200 ELSE 500)
    /\ UNCHANGED <<claims, nextId, now, rev, regen, gen>>

----------------------------------------------------------------------------
(* The lifecycle specification *)

\* One server process over the database: every handler runs alone.
Next ==
    \/ Tick
    \/ \E a \in ClaimAmounts, n \in ClaimItemCounts : CreateClaim(a, n)
    \/ \E c \in ClaimIds, analysed \in BOOLEAN : UploadVideo(c, analysed)
    \/ \E c \in ClaimIds, response \in Responses : GenerateSuggestions(c, response)
    \/ \E id \in SugIds, review \in Reviews : ReviewSuggestion(id, review)
    \/ \E id \in SugIds, review \in Reviews :
          UpdateSuggestionStatus(id, review.status, review.reviewer_id,
                                 review.reviewer_notes, review.modified_action)
    \/ \E id \in SugIds, data \in SuggestionUpdates : UpdateSuggestion(id, data)
    \/ \E id \in SugIds : DeleteSuggestion(id)
    \/ \E c \in ClaimIds : RegenerateSuggestions(c)

Spec == Init /\ [][Next]_vars

----------------------------------------------------------------------------
(* The requests that name a suggestion by its id *)

\* The handlers that look a suggestion up by id, over a store that
\* generation fills and deletion empties.
NextLookup ==
    \/ \E a \in ClaimAmounts, n \in ClaimItemCounts : CreateClaim(a, n)
    \/ \E c \in ClaimIds, response \in Responses : GenerateSuggestions(c, response)
    \/ \E id \in SugIds, review \in Reviews : ReviewSuggestion(id, review)
    \/ \E id \in SugIds, review \in StatusReviews :
          UpdateSuggestionStatus(id, review.status, review.reviewer_id,
                                 review.reviewer_notes, review.modified_action)
    \/ \E id \in SugIds : DeleteSuggestion(id)

SpecLookup == Init /\ [][NextLookup]_vars

----------------------------------------------------------------------------
(* The review route alone over the batches the generator stores *)

\* The review bodies that accept a suggestion as it is or modify it.
AcceptingReviews ==
    {review \in Reviews : review.status \in {ACCEPTED, MODIFIED}}

NextReview ==
    \/ \E a \in ClaimAmounts, n \in ClaimItemCounts : CreateClaim(a, n)
    \/ \E c \in ClaimIds, response \in Responses : GenerateSuggestions(c, response)
    \/ \E id \in SugIds, review \in AcceptingReviews :
          ReviewSuggestion(id, review)

SpecReview == Init /\ [][NextReview]_vars

----------------------------------------------------------------------------
(* Reviews and regenerations over the suggestions of two claims *)

\* SuggestionCreate bodies for the suggestions of either claim.
FrameCreates ==
    {SuggestionCreate(c, APPROVE_CLAIM, 80, PENDING) : c \in QueryClaims}

NextFrame ==
    \/ \E data \in FrameCreates : CreateSuggestion(data)
    \/ \E id \in SugIds, review \in Reviews : ReviewSuggestion(id, review)
    \/ \E id \in SugIds, review \in StatusReviews :
          UpdateSuggestionStatus(id, review.status, review.reviewer_id,
                                 review.reviewer_notes, review.modified_action)
    \/ \E c \in QueryClaims : RegenerateSuggestions(c)

SpecFrame == Init /\ [][NextFrame]_vars

----------------------------------------------------------------------------
(* The store fails during a request: at db.commit(), or at the            *)
(* db.refresh() that follows a commit that succeeded.                      *)

StoreFailurePoints == {"commit", "refresh"}

\* The answer 500 of a request that the store failed, with the id the
\* request was about and the call that raised.
StoreFailure(op, id, at) ==
    [op |-> op, code |-> 500, args |-> <<id>>, body |-> at]

\* review_suggestion, lines 183-204, when the store fails: the exception
\* is caught at line 202, db.rollback() runs and the answer is 500.
ReviewSuggestionStoreFails(id, review, at) ==
    /\ RepoGet(store, id) # None
    /\ RepoGet(store, id)[1].status = PENDING
    /\ LET found == RepoGet(store, id)
           flushed == RepoUpdate(store, id,
                          Dirty(found[1], ReviewAssign(found[1], review, now)))
       IN  store' = Commit(store, flushed, at # "commit")
    /\ resp' = StoreFailure("review", id, at)
    /\ UNCHANGED <<claims, nextId, now, rev, regen, gen>>

\* create_suggestion -> BaseRepository.create, lines 23-29, when the store
\* fails: nothing catches the exception and the server answers 500.
CreateSuggestionStoreFails(data, at) ==
    /\ nextId <= MaxSug
    /\ store' = Commit(store, RepoCreate(store, nextId, data, now),
                       at # "commit")
    /\ nextId' = nextId + 1
    /\ resp' = StoreFailure("create", nextId, at)
    /\ UNCHANGED <<claims, now, rev, regen, gen>>

\* A save loop that commits after every db.add: the suggestions before the
\* k-th are stored when the k-th fails.
SaveBatchCommitEach(table, objs, k, ok) ==
    IF ok THEN RepoAddAll(table, objs)
          ELSE RepoAddAll(table, SubSeq(objs, 1, k - 1))

\* generate_suggestions, lines 78-81: db.add of every suggestion, then one
\* db.commit(), whose flush INSERTs them in one transaction; when ok is
\* false the INSERT of the k-th fails and the commit raises.
SaveBatch(table, objs, k, ok) == Commit(table, RepoAddAll(table, objs), ok)

\* generate_suggestions, lines 72-89, when the store fails at the k-th
\* suggestion of the batch (its INSERT during the commit, or its refresh
\* after the commit): the exception is caught at line 87, db.rollback()
\* runs and the answer is 500.
GenerateSuggestionsStoreFails(c, response, at, k) ==
    /\ claims[c] # None
    /\ LET batch == AnalyzeClaim(claims[c][1], response, nextId, now).suggestions
       IN  /\ k \in 1..Len(batch)
           /\ nextId + Len(batch) - 1 <= MaxSug
           /\ store' = SaveBatch(store, batch, k, at # "commit")
           /\ nextId' = nextId + Len(batch)
    /\ resp' = StoreFailure("generate", c, at)
    /\ UNCHANGED <<claims, now, rev, regen, gen>>

NextStoreFails ==
    \/ \E a \in ClaimAmounts, n \in ClaimItemCounts : CreateClaim(a, n)
    \/ \E c \in ClaimIds, response \in Responses : GenerateSuggestions(c, response)
    \/ \E data \in WellFormedCreates : CreateSuggestion(data)
    \/ \E id \in SugIds, review \in AcceptingReviews :
          ReviewSuggestion(id, review)
    \/ \E id \in SugIds, review \in AcceptingReviews, at \in StoreFailurePoints :
          ReviewSuggestionStoreFails(id, review, at)
    \/ \E data \in WellFormedCreates, at \in StoreFailurePoints :
          CreateSuggestionStoreFails(data, at)
    \/ \E c \in ClaimIds, response \in Responses, at \in StoreFailurePoints,
          k \in SugIds : GenerateSuggestionsStoreFails(c, response, at, k)

SpecStoreFails == Init /\ [][NextStoreFails]_vars

----------------------------------------------------------------------------
(* The population: creation by the generator and by create_suggestion,    *)
(* review, deletion and regeneration, with the metrics read in between    *)

NextPopulation ==
    \/ \E a \in ClaimAmounts, n \in ClaimItemCounts : CreateClaim(a, n)
    \/ \E c \in ClaimIds, response \in Responses : GenerateSuggestions(c, response)
    \/ \E data \in WellFormedCreates : CreateSuggestion(data)
    \/ \E id \in SugIds, review \in StatusReviews : ReviewSuggestion(id, review)
    \/ \E id \in SugIds : DeleteSuggestion(id)
    \/ \E c \in ClaimIds : RegenerateSuggestions(c)
    \/ GetMetrics
    \/ GetPending

SpecPopulation == Init /\ [][NextPopulation]_vars

----------------------------------------------------------------------------
(* The ways a suggestion enters the store *)

NextCreate ==
    \/ \E a \in ClaimAmounts, n \in ClaimItemCounts : CreateClaim(a, n)
    \/ \E c \in ClaimIds, response \in Responses : GenerateSuggestions(c, response)
    \/ \E data \in SuggestionCreates : CreateSuggestion(data)
    \/ \E id \in SugIds : DeleteSuggestion(id)
    \/ \E id \in SugIds : GetSuggestion(id)

SpecCreate == Init /\ [][NextCreate]_vars

----------------------------------------------------------------------------
(* The queries as functions of the population: any population of rows     *)
(* that create_suggestion can store, and one query on it                  *)

QueryTimes == {1, 2}

\* The rows the population is drawn from.
QueryKind(claim_id, type, status, confidence_score, created_at) ==
    [claim_id |-> claim_id, type |-> type, status |-> status,
     confidence_score |-> confidence_score, created_at |-> created_at]

QueryKinds ==
    {QueryKind(c, type, status, 80, t) :
        c \in QueryClaims, type \in {APPROVE_CLAIM, FLAG_FRAUD},
        status \in {PENDING, ACCEPTED}, t \in QueryTimes}
    \cup {QueryKind(1, type, status, 80, 1) :
        type \in {APPROVE_CLAIM, FLAG_FRAUD}, status \in {REJECTED, MODIFIED}}
    \cup {QueryKind(1, APPROVE_CLAIM, PENDING, score, 1) : score \in {79, 81}}

QueryRow(id, kind) ==
    [NewSuggestion(id, kind.claim_id, kind.type, "created",
                   kind.confidence_score, "created",
                   [action |-> "created"], kind.created_at, "client")
        EXCEPT !.status = kind.status]

Populations ==
    {[id \in SugIds |->
         IF choice[id] = None THEN None
                              ELSE Some(QueryRow(id, choice[id][1]))] :
        choice \in [SugIds -> {None} \cup {Some(kind) : kind \in QueryKinds}]}

InitQuery ==
    /\ claims = [c \in ClaimIds |-> None]
    /\ store \in Populations
    /\ nextId = MaxSug + 1
    /\ now = 2
    /\ rev = [w \in Workers |-> None]
    /\ regen = None
    /\ resp = NoResponse
    /\ gen = None

\* One query on the population.
NextQuery ==
    /\ resp = NoResponse
    /\ \/ GetMetrics
       \/ \E threshold \in Thresholds : GetHighConfidence(threshold)
       \/ \E claim_id \in ClaimFilters, status \in StatusFilters,
             type \in TypeFilters : GetSuggestions(claim_id, status, type)
       \/ \E claim_id \in QueryClaims : ListByClaim(claim_id)

SpecQuery == InitQuery /\ [][NextQuery]_vars

----------------------------------------------------------------------------
(* Several server processes over one database: the steps of the review     *)
(* requests of two workers interleave.                                     *)

\* The review bodies whose target status is a terminal one.
TerminalReviews == {review \in Reviews : review.status # PENDING}

NextRace ==
    \/ \E a \in ClaimAmounts, n \in ClaimItemCounts : CreateClaim(a, n)
    \/ \E c \in ClaimIds, response \in Responses : GenerateSuggestions(c, response)
    \/ \E w \in Workers, id \in SugIds, review \in TerminalReviews :
          ReviewQuery(w, id, review)
    \/ \E w \in Workers : ReviewWrite(w)
    \/ \E w \in Workers : ReviewCommit(w)

SpecRace == Init /\ [][NextRace]_vars

(* Several server processes over one database: the steps of one review     *)
(* request and of one regeneration interleave.                             *)

NextRegenRace ==
    \/ \E a \in ClaimAmounts, n \in ClaimItemCounts : CreateClaim(a, n)
    \/ \E c \in ClaimIds, response \in Responses : GenerateSuggestions(c, response)
    \/ \E id \in SugIds, review \in Reviews : ReviewQuery("w1", id, review)
    \/ ReviewWrite("w1")
    \/ ReviewCommit("w1")
    \/ \E c \in ClaimIds : RegenStart(c)
    \/ RegenDelete
    \/ RegenGenerate

SpecRegenRace == Init /\ [][NextRegenRace]_vars

(* Several server processes over one database: get_metrics of one worker   *)
(* issues its queries one after the other, each query reading what is      *)
(* committed when it runs, and the requests of the other workers commit in *)
(* between.                                                                *)

\* Line 72: the query of the total.
MetricsReadTotal(w) ==
    /\ rev[w] = None
    /\ rev' = [rev EXCEPT ![w] =
                 Some([pc |-> "total", total |-> Cardinality(Rows(store)),
                       counts |-> << >>])]
    /\ UNCHANGED <<claims, store, nextId, now, regen, resp, gen>>

\* Lines 74-84: the queries of the accepted, the rejected and the modified
\* count, in this order.
MetricsReadStatus(w) ==
    /\ rev[w] # None
    /\ rev[w][1].pc = "total"
    /\ Len(rev[w][1].counts) < 3
    /\ LET statuses == <<ACCEPTED, REJECTED, MODIFIED>>
           status == statuses[Len(rev[w][1].counts) + 1]
       IN  rev' = [rev EXCEPT ![w] =
                     Some([rev[w][1] EXCEPT
                             !.counts = Append(@, CountStatus(store, status))])]
    /\ UNCHANGED <<claims, store, nextId, now, regen, resp, gen>>

\* Lines 86-97: the grouping query and the dictionary returned.
MetricsReturn(w) ==
    /\ rev[w] # None
    /\ rev[w][1].pc = "total"
    /\ Len(rev[w][1].counts) = 3
    /\ LET total == rev[w][1].total
           counts == rev[w][1].counts
       IN  \E by_type \in GroupByType(store) :
              resp' = ResponseBody("metrics", << >>,
                         [total_suggestions |-> total,
                          acceptance_rate |-> Rate(counts[1], total),
                          rejection_rate |-> Rate(counts[2], total),
                          modification_rate |-> Rate(counts[3], total),
                          suggestions_by_type |-> by_type])
    /\ rev' = [rev EXCEPT ![w] = None]
    /\ UNCHANGED <<claims, store, nextId, now, regen, gen>>

NextMetricsRace ==
    \/ \E data \in WellFormedCreates : CreateSuggestion(data)
    \/ \E id \in SugIds, review \in StatusReviews : ReviewSuggestion(id, review)
    \/ \E id \in SugIds : DeleteSuggestion(id)
    \/ MetricsReadTotal("w2")
    \/ MetricsReadStatus("w2")
    \/ MetricsReturn("w2")

SpecMetricsRace == Init /\ [][NextMetricsRace]_vars

----------------------------------------------------------------------------
(* The generator alone: one analyze_claim call on a claim and a model      *)
(* answer drawn from the sets below.                                       *)

GenAmounts == {0, 10000, 10001, 15000, 50000, 50001, 60000}
GenItemCounts == {0, 3, 10, 11}

GenClaims ==
    {[NewClaim(1, a, n) EXCEPT !.ml_processing_results = v] :
        a \in GenAmounts, n \in GenItemCounts, v \in {None, Some("analysis")}}

\* Entries of a model answer: valid ones, one with a confidence outside
\* [0, 1], one with a type outside the enumeration, one without its
\* description, one whose confidence is not a number.
GenEntries ==
    {Entry(EntryKeys, DENY_CLAIM, TRUE, 95),
     Entry(EntryKeys, REPAIR_ITEM, TRUE, 150),
     Entry(EntryKeys, "investigation", TRUE, 95),
     Entry(EntryKeys \ {"description"}, APPROVE_CLAIM, TRUE, 60),
     Entry(EntryKeys, FLAG_FRAUD, FALSE, 0)}

RECURSIVE SeqsUpTo(_, _)
SeqsUpTo(S, n) ==
    IF n = 0 THEN {<< >>}
    ELSE LET shorter == SeqsUpTo(S, n - 1)
         IN  shorter \cup {Append(q, x) : q \in shorter, x \in S}

GenResponses ==
    {ModelResponse(k, << >>) : k \in {"raise", "notjson", "nokey"}}
    \cup {ModelResponse("ok", es) : es \in SeqsUpTo(GenEntries, MaxEntries)}

InitGen ==
    /\ claims = [c \in ClaimIds |-> None]
    /\ store = [i \in SugIds |-> None]
    /\ nextId = 1
    /\ now = 1
    /\ rev = [w \in Workers |-> None]
    /\ regen = None
    /\ resp = NoResponse
    /\ gen \in {Some([claim |-> c, response |-> r, out |-> None]) :
                   c \in GenClaims, r \in GenResponses}

\* ai_service.analyze_claim(claim) returns.
GenAnalyze ==
    /\ gen[1].out = None
    /\ gen' = Some([gen[1] EXCEPT
                      !.out = Some(AnalyzeClaim(gen[1].claim, gen[1].response,
                                                nextId, now))])
    /\ UNCHANGED <<claims, store, nextId, now, rev, regen, resp>>

NextGen == GenAnalyze

SpecGen == InitGen /\ [][NextGen]_vars

----------------------------------------------------------------------------
(* analyze_claim step by step: the request to the model is sent, the model *)
(* answers or the call raises, and the except clause runs the fallback.    *)
(* A model that never answers is the response of kind "never": the source  *)
(* passes no timeout to the client or to the call and sets no deadline     *)
(* around it.                                                              *)

CallResponses == GenResponses \cup {ModelResponse("never", << >>)}

InitCall ==
    /\ claims = [c \in ClaimIds |-> None]
    /\ store = [i \in SugIds |-> None]
    /\ nextId = 1
    /\ now = 1
    /\ rev = [w \in Workers |-> None]
    /\ regen = None
    /\ resp = NoResponse
    /\ gen \in {Some([claim |-> c, response |-> r, pc |-> "start",
                      primary_calls |-> 0, fallback_calls |-> 0,
                      out |-> None]) :
                   c \in GenClaims, r \in CallResponses}

\* Line 64: client.chat.completions.create(...) is called.
AnalyzeClaimCall ==
    /\ gen[1].pc = "start"
    /\ gen' = Some([gen[1] EXCEPT !.pc = "calling", !.primary_calls = @ + 1])
    /\ UNCHANGED <<claims, store, nextId, now, rev, regen, resp>>

\* Lines 64-94: the call returns or raises and the try block runs to its
\* return or to the exception that ends it.
AnalyzeClaimTry ==
    /\ gen[1].pc = "calling"
    /\ gen[1].response.kind # "never"
    /\ LET primary == PrimaryAnalysis(gen[1].claim, gen[1].response, nextId, now)
       IN  gen' = IF primary.ok
                    THEN Some([gen[1] EXCEPT !.pc = "done",
                                             !.out = Some(primary.suggestions)])
                    ELSE Some([gen[1] EXCEPT !.pc = "except"])
    /\ UNCHANGED <<claims, store, nextId, now, rev, regen, resp>>

\* An except clause that sends the request a second time before it falls
\* back.
ExceptClauseRetry(g) ==
    IF g.primary_calls < 2
      THEN [g EXCEPT !.pc = "start"]
      ELSE [g EXCEPT !.pc = "done",
                     !.fallback_calls = @ + 1,
                     !.out = Some(FallbackAnalysis(g.claim, nextId, now))]

\* Lines 96-98: "except Exception: return self._fallback_analysis(claim)".
ExceptClause(g) ==
    [g EXCEPT !.pc = "done",
              !.fallback_calls = @ + 1,
              !.out = Some(FallbackAnalysis(g.claim, nextId, now))]

AnalyzeClaimExcept ==
    /\ gen[1].pc = "except"
    /\ gen' = Some(ExceptClause(gen[1]))
    /\ UNCHANGED <<claims, store, nextId, now, rev, regen, resp>>

NextCall ==
    \/ AnalyzeClaimCall
    \/ AnalyzeClaimTry
    \/ AnalyzeClaimExcept

SpecCall == InitCall /\ [][NextCall]_vars

\* The interpreter runs every statement it has reached, and a model that
\* answers does so.
SpecCallFair == InitCall /\ [][NextCall]_vars /\ WF_vars(NextCall)

----------------------------------------------------------------------------
(* Properties of the review workflow *)

Stored(i) == store[i] # None
Row(i) == store[i][1]

\* The fields a review writes.
ReviewFields ==
    {"status", "reviewer_id", "reviewer_notes", "reviewed_at", "suggested_action"}

\* C1: once the status of a suggestion has left PENDING it never changes
\* again, and a later review submission for it answers 400 (already
\* reviewed) and leaves the store as it was.
C1_StatusNeverChangesAgain ==
    [][\A i \in SugIds :
          (Stored(i) /\ Row(i).status # PENDING) =>
             /\ store'[i] # None => store'[i][1].status = Row(i).status
             /\ \A review \in Reviews :
                   ReviewSuggestion(i, review) =>
                      resp' = Response("review", 400) /\ store' = store]_vars

\* C2: a review request that commits when the stored status is no longer
\* PENDING (another request won the race) answers 400 and writes nothing;
\* and after a commit that answers 200 the stored status, reviewer_id,
\* reviewer_notes and suggested_action are those of the committing request.
C2_ExactlyOneReviewWins ==
    [][\A w \in Workers :
          (ReviewCommit(w) /\ Stored(rev[w][1].id)) =>
             LET r == rev[w][1]
                 after == store'[r.id][1]
             IN  /\ Row(r.id).status # PENDING =>
                       resp' = Response("review", 400) /\ store' = store
                 /\ resp'.code = 200 =>
                       /\ after.status = r.review.status
                       /\ after.reviewer_id = Some(r.review.reviewer_id)
                       /\ after.reviewer_notes = r.review.reviewer_notes
                       /\ after.suggested_action =
                             IF r.review.modified_action \in {None, Some(EmptyDoc)}
                               THEN r.loaded.suggested_action
                               ELSE r.review.modified_action[1]]_vars

\* C3: the status update (update_suggestion_status) and the generic update
\* (update_suggestion) leave the status and the reviewer fields of a
\* suggestion that is not PENDING as they were.
C3_OnlyGuardedTransition ==
    [][\A i \in SugIds :
          (/\ Stored(i)
           /\ Row(i).status # PENDING
           /\ \/ \E review \in Reviews :
                    UpdateSuggestionStatus(i, review.status, review.reviewer_id,
                                           review.reviewer_notes,
                                           review.modified_action)
              \/ \E data \in SuggestionUpdates : UpdateSuggestion(i, data))
          => /\ store'[i] # None
             /\ store'[i][1].status = Row(i).status
             /\ store'[i][1].reviewer_id = Row(i).reviewer_id
             /\ store'[i][1].reviewer_notes = Row(i).reviewer_notes
             /\ store'[i][1].reviewed_at = Row(i).reviewed_at]_vars

\* C4: a review or a status update for an id that is not stored answers 404
\* and leaves the suggestion table as it was.
C4_UnknownIdChangesNothing ==
    [][\A i \in SugIds :
          ~Stored(i) =>
             \A review \in Reviews :
                /\ ReviewSuggestion(i, review) =>
                      resp' = Response("review", 404) /\ store' = store
                /\ UpdateSuggestionStatus(i, review.status, review.reviewer_id,
                                          review.reviewer_notes,
                                          review.modified_action) =>
                      resp' = Response("update_status", 404) /\ store' = store]_vars

\* A review or a status update of an unknown id was answered while other
\* suggestions are stored.
C4_Witness ==
    /\ resp \in {Response("review", 404), Response("update_status", 404)}
    /\ \E i \in SugIds : Stored(i)
    /\ \E i \in SugIds : ~Stored(i)

\* C5: a successful review of a PENDING suggestion sets status, reviewer_id
\* and reviewer_notes to the submitted values and sets reviewed_at;
\* suggested_action becomes modified_action when one is submitted and stays
\* as it was when none is.
C5_ReviewEffect ==
    [][\A i \in SugIds, review \in Reviews :
          (Stored(i) /\ Row(i).status = PENDING /\ ReviewSuggestion(i, review)) =>
             /\ resp' = Response("review", 200)
             /\ store'[i] # None
             /\ store'[i][1].status = review.status
             /\ store'[i][1].reviewer_id = Some(review.reviewer_id)
             /\ store'[i][1].reviewer_notes = review.reviewer_notes
             /\ store'[i][1].reviewed_at # None
             /\ store'[i][1].suggested_action =
                   IF review.modified_action # None
                     THEN review.modified_action[1]
                     ELSE Row(i).suggested_action]_vars

\* The stored rows of a claim.
RowsOfClaim(table, c) == {r \in Rows(table) : r.claim_id = c}

\* Some answer of the model makes analyze_claim return this batch for the claim.
IsGeneratedBatch(batch, claim) ==
    \E response \in Responses :
       batch = AnalyzeClaim(claim, response, nextId, now).suggestions

\* The elements of a sequence.
Range(seq) == {seq[k] : k \in 1..Len(seq)}

\* C6: regeneration for a claim that has suggestions completes, none of the
\* suggestions the claim had before is stored any more, and the claim's
\* stored suggestions are exactly a newly generated batch, all PENDING.
C6_RegenerationReplaces ==
    [][\A c \in ClaimIds :
          (/\ claims[c] # None
           /\ RowsOfClaim(store, c) # {}
           /\ RegenerateSuggestions(c)) =>
             /\ resp' = Response("regenerate", 200)
             /\ \A i \in SugIds :
                   (Stored(i) /\ Row(i).claim_id = c) => store'[i] = None
             /\ \A r \in RowsOfClaim(store', c) : r.status = PENDING
             /\ \E response \in Responses :
                   RowsOfClaim(store', c) =
                      Range(AnalyzeClaim(claims[c][1], response, nextId, now).suggestions)
       ]_vars

\* C7: claim creation and video-analysis completion each succeed and leave
\* the suggestion table as it was plus a batch the generator returned for the
\* claim.
C7_CreationAppendsBatch ==
    [][\A c \in ClaimIds :
          (\/ claims[c] = None /\ claims'[c] # None
              /\ \E a \in ClaimAmounts, n \in ClaimItemCounts : CreateClaim(a, n)
           \/ claims[c] # None /\ UploadVideo(c, TRUE))
          => /\ resp'.code = 201
             /\ \E response \in Responses :
                   store' = RepoAddAll(store,
                               AnalyzeClaim(claims'[c][1], response, nextId,
                                            now).suggestions)]_vars

----------------------------------------------------------------------------
(* Properties of the generator *)

GenDone == gen # None /\ gen[1].out # None
GenClaim == gen[1].claim
GenOut == gen[1].out[1]

\* The positions of the candidates of a type.
OfType(suggestions, type) ==
    {k \in 1..Len(suggestions) : suggestions[k].type = type}

\* The failures of the primary path: the call raises, the answer is no JSON
\* document, it has no "suggestions" array, or an entry lacks a field or has
\* a type outside the enumeration.
PrimaryPathFails(response) ==
    \/ response.kind \in {"raise", "notjson", "nokey"}
    \/ \E k \in 1..Len(response.entries) :
          \/ response.entries[k].keys # EntryKeys
          \/ response.entries[k].type \notin SuggestionType

C9_FallbackAlwaysApproves ==
    (GenDone /\ GenOut.fallback_calls = 1) =>
       LET out == GenOut.suggestions
       IN  /\ Cardinality(OfType(out, "approve_claim")) = 1
           /\ \A k \in OfType(out, "approve_claim") :
                 /\ out[k].confidence_score = 80
                 /\ out[k].suggested_action =
                       [action |-> "approve",
                        total_amount |-> GenClaim.total_amount]
           /\ Len(out) >= 1
           /\ Len(out) <= 3
           /\ \A type \in SuggestionType : Cardinality(OfType(out, type)) <= 1

\* The fallback ran on a claim of which neither the amount nor the item
\* count fires a rule: approve_claim is its only candidate.
C9_Witness ==
    /\ GenDone
    /\ GenOut.fallback_calls = 1
    /\ GenClaim.total_amount = 10000
    /\ GenClaim.nitems = 10
    /\ Len(GenOut.suggestions) = 1
    /\ GenOut.suggestions[1].type = "approve_claim"

\* C10: the fallback output holds an adjust_amount candidate (confidence
\* 0.85, threshold 10000, current_amount the claim's total_amount) exactly
\* when total_amount > 10000; for 10000 < total_amount <= 50000 and at most
\* 10 items it is adjust_amount followed by approve_claim and nothing else.
C10_AdjustAmountRule ==
    (GenDone /\ GenOut.fallback_calls = 1) =>
       LET out == GenOut.suggestions
           amount == GenClaim.total_amount
       IN  /\ (OfType(out, "adjust_amount") # {}) <=> (amount > 10000)
           /\ \A k \in OfType(out, "adjust_amount") :
                 /\ out[k].confidence_score = 85
                 /\ out[k].suggested_action =
                       [action |-> "review", reason |-> "high_value",
                        threshold |-> 10000, current_amount |-> amount]
           /\ (amount > 10000 /\ amount <= 50000 /\ GenClaim.nitems <= 10) =>
                 /\ Len(out) = 2
                 /\ out[1].type = "adjust_amount"
                 /\ out[2].type = "approve_claim"
                 /\ OfType(out, "flag_fraud") = {}

\* The fallback ran on a claim of 15000 with 3 items and returned two
\* candidates.
C10_Witness ==
    /\ GenDone
    /\ GenOut.fallback_calls = 1
    /\ GenClaim.total_amount = 15000
    /\ GenClaim.nitems = 3
    /\ Len(GenOut.suggestions) = 2

\* C11: the fallback output holds a flag_fraud candidate (confidence 0.75,
\* risk_level medium) exactly when total_amount > 50000 or the item count
\* is above 10; its one indicator is "high_amount" when total_amount > 50000
\* and "excessive_items" otherwise; total_amount > 50000 gives exactly three
\* candidates.
C11_FlagFraudRule ==
    (GenDone /\ GenOut.fallback_calls = 1) =>
       LET out == GenOut.suggestions
           amount == GenClaim.total_amount
       IN  /\ (OfType(out, "flag_fraud") # {})
                 <=> (amount > 50000 \/ GenClaim.nitems > 10)
           /\ \A k \in OfType(out, "flag_fraud") :
                 /\ out[k].confidence_score = 75
                 /\ out[k].suggested_action.action = "investigate"
                 /\ out[k].suggested_action.risk_level = "medium"
                 /\ out[k].suggested_action.indicators =
                       IF amount > 50000 THEN << "high_amount" >>
                                         ELSE << "excessive_items" >>
           /\ amount > 50000 =>
                 /\ Len(out) = 3
                 /\ out[1].type = "adjust_amount"
                 /\ out[2].type = "flag_fraud"
                 /\ out[3].type = "approve_claim"

\* The fallback ran on a claim of 60000 with 11 items: three candidates,
\* the indicator being "high_amount".
C11_Witness ==
    /\ GenDone
    /\ GenOut.fallback_calls = 1
    /\ GenClaim.total_amount = 60000
    /\ GenClaim.nitems = 11
    /\ Len(GenOut.suggestions) = 3
    /\ GenOut.suggestions[2].suggested_action.indicators = << "high_amount" >>

\* C12: every suggestion analyze_claim returns has a confidence_score
\* within [0, 1]: an entry of the model's answer with a score outside the
\* range yields no suggestion.
C12_ConfidenceWithinBounds ==
    GenDone =>
       \A k \in 1..Len(GenOut.suggestions) :
          /\ GenOut.suggestions[k].confidence_score >= 0
          /\ GenOut.suggestions[k].confidence_score <= 100

----------------------------------------------------------------------------
(* Properties of creation *)

\* A SuggestionCreate body passes the validation of the specification.
ValidCreate(data) ==
    /\ data.confidence_score >= 0
    /\ data.confidence_score <= 100
    /\ data.type \in SuggestionType
    /\ data.status \in SuggestionStatus

\* C13: create_suggestion with a confidence_score outside [0, 1], or a type
\* or status outside the enumeration, fails with a validation error and
\* leaves the store unchanged.
C13_CreateValidates ==
    [][\A data \in SuggestionCreates :
          (CreateSuggestion(data) /\ ~ValidCreate(data)) =>
             /\ resp' = Response("create", 422)
             /\ store' = store]_vars

\* C14 as stated: every suggestion that enters the store, through any
\* creation path, enters it PENDING.
C14_CreatedPending ==
    [][\A i \in SugIds :
          (store[i] = None /\ store'[i] # None) =>
             store'[i][1].status = PENDING]_vars

\* C14 as amended: every suggestion the generator produces, from the model's
\* answer or from the fallback, is stored PENDING by generate_suggestions;
\* create_suggestion stores the suggestion with the status submitted.
C14_GeneratedPending ==
    [][/\ \A c \in ClaimIds, response \in Responses :
             GenerateSuggestions(c, response) =>
                \A i \in SugIds :
                   (store[i] = None /\ store'[i] # None) =>
                      store'[i][1].status = PENDING
       /\ \A data \in SuggestionCreates :
             CreateSuggestion(data) =>
                /\ store'[nextId] # None
                /\ store'[nextId][1].status = data.status]_vars

\* The store holds a suggestion the generator built from the model's
\* answer, PENDING, and one create_suggestion stored as ACCEPTED that no
\* reviewer has reviewed.
C14_Witness ==
    \E i, j \in SugIds :
       /\ store[i] # None
       /\ store[i][1].model_version = ModelVersion
       /\ store[i][1].status = PENDING
       /\ store[j] # None
       /\ store[j][1].model_version = "client"
       /\ store[j][1].status = ACCEPTED
       /\ store[j][1].reviewer_id = None

----------------------------------------------------------------------------
(* Properties of the metrics and of the queries *)

StoredIds == {i \in SugIds : Stored(i)}
StoredWith(status) == {i \in StoredIds : Row(i).status = status}
StoredOfType(type) == {i \in StoredIds : Row(i).type = type}

\* The fraction rate equals count/total.
RateIs(rate, count, total) ==
    /\ rate.den > 0
    /\ rate.num * total = count * rate.den

\* The fraction rate equals 0.
RateIsZero(rate) == rate.den > 0 /\ rate.num = 0

C19_FiltersAreConjunctive ==
    resp.op = "list" =>
       LET claim_id == resp.args[1]
           status == resp.args[2]
           type == resp.args[3]
           found == resp.body
           wanted == {i \in StoredIds :
                        /\ claim_id # None => Row(i).claim_id = claim_id[1]
                        /\ status # None => Row(i).status = status[1]
                        /\ type # None => Row(i).type = type[1]}
       IN  /\ Range(found) = {Row(i) : i \in wanted}
           /\ Len(found) = Cardinality(wanted)
           /\ \A k \in 1..Len(found) - 1 :
                 found[k].created_at >= found[k + 1].created_at
           /\ (claim_id = None /\ status = None /\ type = None) =>
                 Len(found) = Cardinality(StoredIds)

\* The population holds an older ACCEPTED and a newer PENDING suggestion of
\* one type and claim; the query with the three filters returned the
\* PENDING one alone.
C19_Witness ==
    /\ resp.op = "list"
    /\ resp.args[1] # None /\ resp.args[2] = Some(PENDING) /\ resp.args[3] # None
    /\ \E i, j \in StoredIds :
          /\ Row(i).status = "pending"
          /\ Row(j).status = "accepted"
          /\ Row(i).type = Row(j).type
          /\ Row(i).claim_id = Row(j).claim_id
          /\ Row(i).created_at > Row(j).created_at
          /\ resp.body = << Row(i) >>

\* C20: get_by_claim(claim_id) returns exactly the stored suggestions of
\* the claim, the most recently created first.
C20_ListByClaim ==
    resp.op = "by_claim" =>
       LET claim_id == resp.args[1]
           found == resp.body
           wanted == {i \in StoredIds : Row(i).claim_id = claim_id}
       IN  /\ Range(found) = {Row(i) : i \in wanted}
           /\ Len(found) = Cardinality(wanted)
           /\ \A k \in 1..Len(found) - 1 :
                 found[k].created_at >= found[k + 1].created_at

\* Two suggestions of one claim, the one of the larger id created first,
\* and one of another claim: the query returned the two, the newer first.
C20_Witness ==
    /\ resp.op = "by_claim"
    /\ Len(resp.body) = 2
    /\ \A i \in StoredIds : Row(i).claim_id = resp.args[1]
    /\ resp.body[1].created_at > resp.body[2].created_at
    /\ resp.body[1].id < resp.body[2].id

----------------------------------------------------------------------------
(* Properties of deletion *)

\* C22: delete of a stored id answers success and removes the row, so that
\* get of the id finds nothing; delete of an id that is not stored answers
\* not-found and leaves the table as it was; either way every other row is
\* as it was.
C22_DeleteRemovesOne ==
    [][\A i \in SugIds :
          /\ DeleteSuggestion(i) =>
                /\ Stored(i) =>
                      /\ resp' = Response("delete", 200)
                      /\ RepoGet(store', i) = None
                /\ ~Stored(i) =>
                      /\ resp' = Response("delete", 404)
                      /\ store' = store
                /\ \A j \in SugIds \ {i} : store'[j] = store[j]
          /\ GetSuggestion(i) =>
                /\ resp'.code = (IF Stored(i) THEN 200 ELSE 404)
                /\ Stored(i) => resp'.body = Some(Row(i))]_vars

\* Two suggestions were stored and the first was deleted: get of its id
\* answered 404 while the second is still stored.
C22_Witness ==
    /\ resp.op = "get"
    /\ resp.code = 404
    /\ resp.args = << 1 >>
    /\ nextId = 3
    /\ ~Stored(1)
    /\ Stored(2)

----------------------------------------------------------------------------
(* Properties of the review fields *)

\* The review fields of a row are unset.
Unreviewed(row) ==
    /\ row.reviewed_at = None
    /\ row.reviewer_id = None
    /\ row.reviewer_notes = None

\* C23: a stored suggestion whose status is PENDING has reviewed_at,
\* reviewer_id and reviewer_notes unset; and once a review has set them, no
\* operation that leaves the suggestion stored changes any of the three.
C23_ReviewFieldsSetOnce ==
    /\ [](\A i \in SugIds :
            (Stored(i) /\ Row(i).status = PENDING) => Unreviewed(Row(i)))
    /\ [][\A i \in SugIds :
            (Stored(i) /\ Row(i).reviewed_at # None /\ store'[i] # None) =>
               /\ store'[i][1].reviewed_at = Row(i).reviewed_at
               /\ store'[i][1].reviewer_id = Row(i).reviewer_id
               /\ store'[i][1].reviewer_notes = Row(i).reviewer_notes]_vars

----------------------------------------------------------------------------
(* Properties of the generation calls *)

\* C25: when process_video_upload has stored the video-analysis results of
\* a claim, the generation it triggers runs on the claim as stored after the
\* update, and the claim data handed to the generator holds those results.
C25_GeneratorSeesVideoAnalysis ==
    [][\A c \in ClaimIds :
          (claims[c] # None /\ UploadVideo(c, TRUE)) =>
             /\ claims'[c][1].video_analysis # None
             /\ \E response \in Responses :
                   LET out == AnalyzeClaim(claims'[c][1], response, nextId, now)
                   IN  /\ out.claim_data.video_analysis
                             = claims'[c][1].video_analysis
                       /\ store' = RepoAddAll(store, out.suggestions)]_vars

\* C28: every suggestion analyze_claim returns from the fallback rules has
\* the model_version "fallback-v1", every suggestion it builds from the
\* model's answer has the version of the model, and the two tags differ.
C28_VersionTellsOrigin ==
    GenDone =>
       LET out == GenOut.suggestions
           from_model ==
              PrimaryAnalysis(GenClaim, gen[1].response, nextId, now).ok
       IN  /\ "fallback-v1" # "gpt-4-turbo-preview"
           /\ FallbackVersion # ModelVersion
           /\ ~from_model =>
                 /\ GenOut.fallback_calls = 1
                 /\ \A k \in 1..Len(out) : out[k].model_version = "fallback-v1"
           /\ from_model =>
                 /\ GenOut.fallback_calls = 0
                 /\ Len(out) = Len(gen[1].response.entries)
                 /\ \A k \in 1..Len(out) :
                       out[k].model_version = "gpt-4-turbo-preview"

\* The model answered with two valid entries: both suggestions returned
\* carry the model's version and the fallback did not run.
C28_Witness ==
    /\ GenDone
    /\ GenOut.fallback_calls = 0
    /\ Len(GenOut.suggestions) = 2
    /\ \A k \in 1..2 :
          /\ GenOut.suggestions[k].model_version = ModelVersion
          /\ GenOut.suggestions[k].type = gen[1].response.entries[k].type

\* The call of analyze_claim in progress.
Call == gen[1]

----------------------------------------------------------------------------
(* Properties of a regeneration that runs beside a review *)

\* C29: a review request that runs beside a regeneration either commits
\* while its suggestion is still stored, and then the whole review is
\* applied and answered 200, or finds its suggestion deleted, and then it
\* answers 404 and writes nothing; and when the deletion loop of the
\* regeneration has ended none of the suggestions it listed is stored.
C29_ReviewOrDeletionWins ==
    [][/\ ReviewCommit("w1") =>
             LET r == rev["w1"][1]
             IN  IF Stored(r.id)
                   THEN /\ resp' = Response("review", 200)
                        /\ store'[r.id] =
                              Some(SetAttrs(Row(r.id), Dirty(r.loaded, r.obj)))
                   ELSE /\ resp' = Response("review", 404)
                        /\ store' = store
       /\ RegenGenerate =>
             \A k \in 1..Len(regen[1].existing) :
                store'[regen[1].existing[k]] = None]_vars

----------------------------------------------------------------------------
(* Properties of a failing store *)

\* C30: when the store fails at the commit of a review or of a create, the
\* request answers with an error and the suggestion table is as it was
\* before the request: the reviewed suggestion keeps its status, reviewer
\* fields and suggested_action, and no suggestion is added.
C30_FailedCommitWritesNothing ==
    [][/\ \A i \in SugIds, review \in Reviews :
             ReviewSuggestionStoreFails(i, review, "commit") =>
                /\ resp'.code = 500
                /\ store'[i] = store[i]
                /\ store' = store
       /\ \A data \in SuggestionCreates :
             CreateSuggestionStoreFails(data, "commit") =>
                /\ resp'.code = 500
                /\ \A i \in SugIds : ~Stored(i) => store'[i] = None
                /\ store' = store]_vars

\* A create failed at its commit after one suggestion had been stored (the
\* id 2 was drawn and no row has it), and then a review of the stored
\* suggestion failed at its commit: the suggestion is PENDING with no
\* reviewer and the suggested_action it was stored with.
C30_Witness ==
    /\ "body" \in DOMAIN resp
    /\ resp = StoreFailure("review", 1, "commit")
    /\ nextId = 3
    /\ ~Stored(2)
    /\ Stored(1)
    /\ Row(1).status = PENDING
    /\ Unreviewed(Row(1))
    /\ Row(1).suggested_action # Override

----------------------------------------------------------------------------
(* Properties of the generation triggers *)

\* C31: create_claim and a video upload for a stored claim each succeed
\* after exactly one run of the generator for that claim; a video upload
\* for an id that has no claim answers 404 and changes neither table.
C31_TriggersInvokeGeneratorOnce ==
    [][\A c \in ClaimIds :
          /\ (\/ /\ claims[c] = None
                 /\ claims'[c] # None
                 /\ \E a \in ClaimAmounts, n \in ClaimItemCounts : CreateClaim(a, n)
              \/ claims[c] # None /\ UploadVideo(c, TRUE)) =>
                /\ ServiceGenerateSuggestions(store, c).analyze_calls = 1
                /\ resp'.code = 201
          /\ \A analysed \in BOOLEAN :
                (claims[c] = None /\ UploadVideo(c, analysed)) =>
                   /\ resp' = Response("upload_video", 404)
                   /\ claims' = claims
                   /\ store' = store]_vars

----------------------------------------------------------------------------
(* Properties of the review's target status *)

\* C32: a review that answers 200 leaves the suggestion ACCEPTED, REJECTED
\* or MODIFIED, and a review whose target status is PENDING answers with an
\* error and writes nothing, so that no PENDING suggestion carries a
\* reviewer_id or a reviewed_at.
C32_ReviewEndsTerminal ==
    [][\A i \in SugIds, review \in Reviews :
          ReviewSuggestion(i, review) =>
             /\ resp'.code = 200 =>
                   /\ store'[i] # None
                   /\ store'[i][1].status \in {ACCEPTED, REJECTED, MODIFIED}
             /\ review.status = PENDING =>
                   /\ resp'.code # 200
                   /\ store' = store
             /\ \A j \in SugIds :
                   (store'[j] # None /\ store'[j][1].status = PENDING) =>
                      /\ store'[j][1].reviewer_id = None
                      /\ store'[j][1].reviewed_at = None]_vars

\* C33: a Metrics answer computed while suggestions are concurrently
\* created, reviewed or deleted has each of its three rates between 0 and 1
\* and the three rates sum to at most 1.
C33_MetricsDescribeOneState ==
    resp.op = "metrics" =>
       LET m == resp.body
           a == m.acceptance_rate
           r == m.rejection_rate
           d == m.modification_rate
       IN  /\ \A rate \in {a, r, d} : rate.num >= 0 /\ rate.num <= rate.den
           /\ a.num * r.den * d.den + r.num * a.den * d.den
                 + d.num * a.den * r.den <= a.den * r.den * d.den

----------------------------------------------------------------------------
(* Frame of a review *)

\* The fields no review writes.
C34_KeptFields ==
    {"id", "claim_id", "type", "description", "confidence_score",
     "ai_explanation", "created_at", "model_version"}

\* C34: a review that succeeds (through the review route or through
\* update_status) leaves the reviewed suggestion's id, claim_id, type,
\* description, confidence_score, explanation, created_at and model_version
\* as they were, leaves its suggested_action as it was when no
\* modified_action is given, and leaves every other suggestion as it was.
C34_ReviewChangesOnlyReviewFields ==
    [][\A i \in SugIds, review \in Reviews :
          (/\ resp'.code = 200
           /\ store[i] # None
           /\ \/ ReviewSuggestion(i, review)
              \/ UpdateSuggestionStatus(i, review.status, review.reviewer_id,
                                        review.reviewer_notes,
                                        review.modified_action)) =>
             /\ store'[i] # None
             /\ DOMAIN store'[i][1] = DOMAIN Row(i)
             /\ \A k \in C34_KeptFields : store'[i][1][k] = Row(i)[k]
             /\ review.modified_action = None =>
                   store'[i][1].suggested_action = Row(i).suggested_action
             /\ \A j \in SugIds \ {i} : store'[j] = store[j]]_vars

\* A review with an override has just succeeded on one of two stored
\* suggestions; the other one is PENDING and unreviewed.
C34_Witness ==
    /\ resp = Response("review", 200)
    /\ \E i, j \in StoredIds :
          /\ i # j
          /\ Row(i).status = MODIFIED
          /\ Row(i).reviewer_id # None
          /\ Row(i).suggested_action = Override
          /\ Row(j).status = PENDING
          /\ Unreviewed(Row(j))

\* C35: regenerate_suggestions for a claim removes the suggestions of that
\* claim and leaves every suggestion of every other claim stored with all
\* its fields as they were.
C35_RegenerationKeepsOtherClaims ==
    [][\A c \in QueryClaims :
          RegenerateSuggestions(c) =>
             \A i \in SugIds :
                Stored(i) =>
                   IF Row(i).claim_id = c THEN store'[i] = None
                                          ELSE store'[i] = store[i]]_vars

\* A regeneration has just ended, a suggestion created before it is gone,
\* and a reviewed suggestion of claim 2 is stored.
C35_Witness ==
    /\ resp.op = "regenerate"
    /\ nextId = MaxSug + 1
    /\ \E i, j \in SugIds :
          /\ ~Stored(i)
          /\ Stored(j)
          /\ Row(j).claim_id = 2
          /\ Row(j).status = ACCEPTED
          /\ Row(j).reviewer_id # None

----------------------------------------------------------------------------
(* Determinism of the fallback *)

\* A candidate without its id, its created_at and the id of its claim.
C36_Content(suggestion) ==
    [k \in DOMAIN suggestion \ {"id", "created_at", "claim_id"} |-> suggestion[k]]

C36_Contents(suggestions) ==
    [k \in 1..Len(suggestions) |-> C36_Content(suggestions[k])]

\* The claims that have the total_amount and the item count of `claim`.
C36_SameSnapshot(claim) ==
    {[claim EXCEPT !.id = id, !.ml_processing_results = results,
                   !.has_video = video] :
        id \in {1, 2}, results \in {None, Some("analysis"), Some("other")},
        video \in BOOLEAN}

\* The place of a type in the order adjust_amount, flag_fraud, approve_claim.
C36_Rank(type) ==
    CASE type = ADJUST_AMOUNT -> 1
      [] type = FLAG_FRAUD -> 2
      [] type = APPROVE_CLAIM -> 3
      [] OTHER -> 0

\* C36: when the fallback has produced the result of a run, a fallback run
\* on any claim of the same total_amount and item count, with other ids and
\* another clock, yields the same candidates but for ids and timestamps; the
\* candidates come in the order adjust_amount, flag_fraud, approve_claim;
\* and the run leaves the claim as it was.
C36_FallbackDeterministic ==
    /\ []((GenDone /\ GenOut.fallback_calls = 1) =>
            /\ \A other \in C36_SameSnapshot(GenClaim), firstId \in {1, 5},
                  t \in {1, 2} :
                  C36_Contents(FallbackAnalysis(other, firstId, t)) =
                     C36_Contents(GenOut.suggestions)
            /\ \A k, l \in 1..Len(GenOut.suggestions) :
                  k < l =>
                     /\ C36_Rank(GenOut.suggestions[k].type) > 0
                     /\ C36_Rank(GenOut.suggestions[k].type) <
                           C36_Rank(GenOut.suggestions[l].type))
    /\ [][gen' # None /\ gen'[1].claim = gen[1].claim]_vars

\* The fallback has run on a claim that has processing results and has
\* produced the three candidates.
C36_Witness ==
    /\ GenDone
    /\ GenOut.fallback_calls = 1
    /\ GenClaim.ml_processing_results # None
    /\ Len(GenOut.suggestions) = 3
    /\ GenOut.suggestions[1].type = ADJUST_AMOUNT
    /\ GenOut.suggestions[2].type = FLAG_FRAUD
    /\ GenOut.suggestions[3].type = APPROVE_CLAIM

----------------------------------------------------------------------------
(* Atomicity of the generate route *)

\* The ids stored after the step that were not stored before it.
C37_Added == {i \in SugIds : ~Stored(i) /\ store'[i] # None}

\* C37: generate_suggestions for an id that has no claim answers 404 and
\* stores nothing; a generation whose save fails at any suggestion of the
\* batch answers 500, and one that fails at the commit leaves the table as
\* it was; after any generation, successful or failed, the suggestions
\* added are none or the whole batch, and no stored suggestion is changed.
C37_BatchAllOrNothing ==
    [][resp'.op = "generate" =>
         \A c \in ClaimIds, response \in Responses :
            /\ (claims[c] = None /\ GenerateSuggestions(c, response)) =>
                  /\ resp' = Response("generate", 404)
                  /\ store' = store
            /\ \A at \in StoreFailurePoints, k \in SugIds :
                  GenerateSuggestionsStoreFails(c, response, at, k) =>
                     /\ resp'.code = 500
                     /\ at = "commit" => store' = store
            /\ (/\ claims[c] # None
                /\ \/ GenerateSuggestions(c, response)
                   \/ \E at \in StoreFailurePoints, k \in SugIds :
                         GenerateSuggestionsStoreFails(c, response, at, k)) =>
                  LET batch == AnalyzeClaim(claims[c][1], response, nextId, now).suggestions
                  IN  /\ C37_Added \in {{}, {batch[n].id : n \in 1..Len(batch)}}
                      /\ \A i \in C37_Added :
                            \E n \in 1..Len(batch) : store'[i] = Some(batch[n])
                      /\ \A i \in StoredIds : store'[i] = store[i]]_vars

\* A generation of a batch of two has just failed at its commit: both ids
\* were drawn and neither is stored.
C37_Witness ==
    /\ "body" \in DOMAIN resp
    /\ resp = StoreFailure("generate", 1, "commit")
    /\ claims[1] # None
    /\ nextId = 3
    /\ ~Stored(1)
    /\ ~Stored(2)

====
